---------------------------- MODULE Spec2Model ----------------------------
(***************************************************************************)
(* Model of OpenNL::Solver_BICGSTAB (Packages/OpenNL/include/OpenNL/        *)
(* bicgstab.h): the configuration object, and one call of solve(A, b, x)    *)
(* followed statement by statement.                                         *)
(*                                                                          *)
(* CoeffType values are exact rationals <<num, den>> in lowest terms with   *)
(* den > 0, extended with the three non-finite values a division by zero    *)
(* produces on an IEEE machine: <<1,0>> = +Inf, <<-1,0>> = -Inf and         *)
(* <<0,0>> = NaN.  A scalar that was declared but never assigned is Uninit. *)
(* Rounding is not modelled.  TLC's integers are 32 bits wide, which is why *)
(* the dimension stays at most 2 and the matrix entries in -1..1: one more  *)
(* of either produces numerators beyond 2^31 in the second iteration.       *)
(***************************************************************************)
EXTENDS Integers, Sequences, FiniteSets, TLC

(***************************************************************************)
(* Bounds of the input space.                                               *)
(***************************************************************************)
MaxIterCfg == 1      \* set_max_iter is called with 0..MaxIterCfg
MaxRhs == 1          \* coefficients of b are in 0..MaxRhs

Dims == {0, 1, 2}

MatrixEntries == {-1, 0, 1}

GuessEntries == {0, 1}

(***************************************************************************)
(* CoeffType arithmetic.                                                    *)
(***************************************************************************)
Sign(k) == IF k > 0 THEN 1 ELSE IF k < 0 THEN -1 ELSE 0

Abs(k) == IF k < 0 THEN -k ELSE k

RECURSIVE GCD(_, _)
GCD(p, q) == IF q = 0 THEN p ELSE GCD(q, p % q)

Rat(num, den) ==
    IF den = 0 THEN <<Sign(num), 0>>
    ELSE LET g == GCD(Abs(num), Abs(den))
         IN  <<(Sign(den) * num) \div g, Abs(den) \div g>>

Zero == <<0, 1>>

One == <<1, 1>>

NaN == <<0, 0>>

PInf == <<1, 0>>

Uninit == <<0, -1>>

Scalar(k) == <<k, 1>>

RNeg(a) == <<-a[1], a[2]>>

RAdd(a, c) ==
    IF a[2] = 0 \/ c[2] = 0
    THEN IF a = NaN \/ c = NaN THEN NaN
         ELSE IF a[2] = 0 /\ c[2] = 0 THEN (IF a = c THEN a ELSE NaN)
         ELSE IF a[2] = 0 THEN a ELSE c
    ELSE LET g == GCD(a[2], c[2])
         IN  Rat(a[1] * (c[2] \div g) + c[1] * (a[2] \div g), (a[2] \div g) * c[2])

RMul(a, c) ==
    IF a[2] = 0 \/ c[2] = 0
    THEN Rat(a[1] * c[1], 0)
    ELSE LET g1 == GCD(Abs(a[1]), c[2])
             g2 == GCD(Abs(c[1]), a[2])
         IN  Rat((a[1] \div g1) * (c[1] \div g2), (a[2] \div g2) * (c[2] \div g1))

RInv(a) ==
    IF a[2] = 0 THEN (IF a = NaN THEN NaN ELSE Zero)
    ELSE IF a[1] = 0 THEN PInf
    ELSE <<Sign(a[1]) * a[2], Abs(a[1])>>

RDiv(a, c) == RMul(a, RInv(c))

\* p/q < v/w for q, w > 0, by comparing integer parts and then the
\* reciprocals of the fractional parts (no cross product is formed)
RECURSIVE FracLess(_, _, _, _)
FracLess(p, q, v, w) ==
    IF p \div q # v \div w THEN p \div q < v \div w
    ELSE IF v % w = 0 THEN FALSE
    ELSE IF p % q = 0 THEN TRUE
    ELSE FracLess(w, v % w, q, p % q)

RLess(a, c) ==
    IF a = NaN \/ c = NaN THEN FALSE
    ELSE IF a[2] = 0 /\ c[2] = 0 THEN a[1] < c[1]
    ELSE IF a[2] = 0 THEN a[1] < 0
    ELSE IF c[2] = 0 THEN c[1] > 0
    ELSE FracLess(a[1], a[2], c[1], c[2])

RLeq(a, c) == a # NaN /\ c # NaN /\ (a = c \/ RLess(a, c))

fabs(a) == <<Abs(a[1]), a[2]>>

\* numeric_limits<CoeffType>::min(): the smallest positive normalized value.
\* 2^-1022 for double; 2^-30 here, the smallest power of two the model's
\* integers can hold.
NumericMin == <<1, 1073741824>>

IsZero(a) == RLess(fabs(a), RMul(Scalar(10), NumericMin))

(***************************************************************************)
(* Vectors, BLAS level 1 and the matrix-vector product.                     *)
(***************************************************************************)
\* Vector(k): k coefficients, all zero
RECURSIVE ZeroVector(_)
ZeroVector(k) == IF k = 0 THEN <<>> ELSE Append(ZeroVector(k - 1), Zero)

RECURSIVE DotAcc(_, _, _, _)
DotAcc(v, w, i, acc) ==
    IF i > Len(v) THEN acc
    ELSE DotAcc(v, w, i + 1, RAdd(acc, RMul(v[i], w[i])))

\* dot(x, y) = sum of x[i]*y[i]
dot(v, w) == DotAcc(v, w, 1, Zero)

RECURSIVE AxpyAcc(_, _, _, _)
AxpyAcc(a, v, w, acc) ==
    IF Len(acc) = Len(w) THEN acc
    ELSE AxpyAcc(a, v, w,
                 Append(acc, RAdd(w[Len(acc) + 1], RMul(a, v[Len(acc) + 1]))))

\* axpy(a, x, y): y <- y + a*x
axpy(a, v, w) == AxpyAcc(a, v, w, <<>>)

RECURSIVE ScalAcc(_, _, _)
ScalAcc(a, v, acc) ==
    IF Len(acc) = Len(v) THEN acc
    ELSE ScalAcc(a, v, Append(acc, RMul(a, v[Len(acc) + 1])))

\* scal(a, x): x <- a*x
scal(a, v) == ScalAcc(a, v, <<>>)

\* copy(x, y): y <- x
copy(src, dst) == src

RECURSIVE MultAcc(_, _, _)
MultAcc(M, v, acc) ==
    IF Len(acc) = Len(M) THEN acc
    ELSE MultAcc(M, v, Append(acc, dot(M[Len(acc) + 1], v)))

\* mult(A, x, y): y <- A*x
mult(M, v) == MultAcc(M, v, <<>>)

(***************************************************************************)
(* State.                                                                   *)
(***************************************************************************)
VARIABLES
    NDEBUG,        \* the build: TRUE when assert() is compiled out
    epsilon_, max_iter_,
    pc,            \* position of the call, named after the source line
    A, b, x,       \* the arguments; x is written by solve
    n, max_iter, rT, d, h, u, Ad, t, r,
    rTh, rTAd, rTr, alpha, beta, omega, st, tt, its, err,
    success,       \* the value returned
    cerr,          \* the lines written to std::cerr
    x_entry,       \* history: x as it was on entry
    x_written,     \* history: the value stored by the last x update
    multCalls,     \* history: number of calls of mult
    bodyEntries,   \* history: number of times the loop body was entered
    broke          \* history: the guard that left the loop by break

config == <<NDEBUG, epsilon_, max_iter_>>
args == <<A, b, x_entry>>
vectors == <<rT, d, h, u, Ad, t, r>>
scalars == <<rTh, rTAd, rTr, alpha, beta, omega, st, tt, err>>
history == <<x_written, multCalls, bodyEntries, broke>>
vars == <<config, pc, args, x, n, max_iter, vectors, scalars, its,
          success, cerr, history>>

EpsilonValues == {One}

VectorsOver(k, S) == [1..k -> {Scalar(e) : e \in S}]

Matrices(k) == [1..k -> VectorsOver(k, MatrixEntries)]

\* A.dimension(), b.dimension(), x.dimension()
dimension(v) == Len(v)

\* Solver_BICGSTAB(): epsilon_ = 1e-4, max_iter_ = 0
Init ==
    /\ NDEBUG \in BOOLEAN
    /\ epsilon_ = <<1, 10000>>
    /\ max_iter_ = 0
    /\ pc = "idle"
    /\ A = <<>> /\ b = <<>> /\ x = <<>> /\ x_entry = <<>>
    /\ n = 0 /\ max_iter = 0
    /\ rT = <<>> /\ d = <<>> /\ h = <<>> /\ u = <<>>
    /\ Ad = <<>> /\ t = <<>> /\ r = <<>>
    /\ rTh = Uninit /\ rTAd = Uninit /\ rTr = Uninit /\ alpha = Uninit
    /\ beta = Uninit /\ omega = Uninit /\ st = Uninit /\ tt = Uninit
    /\ err = Uninit
    /\ its = 0
    /\ success = FALSE
    /\ cerr = <<>>
    /\ x_written = <<>>
    /\ multCalls = 0
    /\ bodyEntries = 0
    /\ broke = "none"

set_epsilon(eps) ==
    /\ pc = "idle"
    /\ epsilon_' = eps
    /\ UNCHANGED <<NDEBUG, max_iter_, pc, args, x, n, max_iter, vectors,
                   scalars, its, success, cerr, history>>

set_max_iter(k) ==
    /\ pc = "idle"
    /\ max_iter_' = k
    /\ UNCHANGED <<NDEBUG, epsilon_, pc, args, x, n, max_iter, vectors,
                   scalars, its, success, cerr, history>>

\* the caller enters solve(A, b, x)
Call(M, rhs, guess) ==
    /\ pc = "idle"
    /\ pc' = "L106"
    /\ A' = M /\ b' = rhs /\ x' = guess /\ x_entry' = guess
    /\ UNCHANGED <<config, n, max_iter, vectors, scalars, its, success,
                   cerr, history>>

(***************************************************************************)
(* solve(A, b, x)                                                           *)
(***************************************************************************)
\* the tests without the one on A.dimension() <= 0
DimensionsValid_NoPositiveTest(M, rhs, guess) ==
    /\ ~(dimension(M) # dimension(rhs))
    /\ ~(dimension(M) # dimension(guess))

\* lines 106-111: the three tests that let the call proceed
DimensionsValid(M, rhs, guess) ==
    /\ ~(dimension(M) # dimension(rhs))
    /\ ~(dimension(M) # dimension(guess))
    /\ ~(dimension(M) <= 0)

\* lines 114-118
EffectiveMaxIter(cfg, dim) == IF cfg = 0 THEN 10 * dim ELSE cfg

\* the loop condition with its <= max_iter
LoopCond_OffByOne(res, target, count, cap) ==
    RLess(target, res) /\ count <= cap

\* line 143
LoopCond(res, target, count, cap) == RLess(target, res) /\ count < cap

\* the x update with the sign of alpha*d flipped
x_update_PlusAlpha(al, dv, om, sv, xv) == axpy(RNeg(om), sv, axpy(al, dv, xv))

\* lines 161-162: x = x - alpha*d ; x = x - omega*s
x_update(al, dv, om, sv, xv) == axpy(RNeg(om), sv, axpy(RNeg(al), dv, xv))

\* lines 149 and 164: r = r - alpha*Ad ; r = r - omega*t
r_update(coef, v, rv) == axpy(RNeg(coef), v, rv)

\* lines 150-151: copy(h, s) ; s = s - alpha*Ad, with s an alias of h
s_update(al, av, hv) == axpy(RNeg(al), av, copy(hv, hv))

\* line 166 left out
h_update_Missing(om, tv, hv) == copy(hv, hv)

\* lines 163 and 166: copy(s, h) ; h = h - omega*t, with s an alias of h
h_update(om, tv, hv) == axpy(RNeg(om), tv, copy(hv, hv))

\* success computed with < instead of <=
Success_Strict(res, target) == RLess(res, target)

\* line 180
Success(res, target) == RLeq(res, target)

\* lines 106-111
Validate ==
    /\ pc = "L106"
    /\ IF DimensionsValid(A, b, x)
       THEN /\ pc' = "L113"
            /\ UNCHANGED success
       ELSE /\ pc' = "returned"
            /\ success' = FALSE
    /\ UNCHANGED <<config, args, x, n, max_iter, vectors, scalars, its,
                   cerr, history>>

\* lines 113-141: locals, initial residue, assert on (rT|rT)
Setup ==
    /\ pc = "L113"
    /\ LET n1 == dimension(A)
           r1 == axpy(Scalar(-1), b, mult(A, x))
           d1 == copy(r1, ZeroVector(n1))
           h1 == copy(d1, ZeroVector(n1))
           rT1 == copy(h1, ZeroVector(n1))
       IN  /\ n' = n1
           /\ max_iter' = EffectiveMaxIter(max_iter_, n1)
           /\ u' = ZeroVector(n1) /\ Ad' = ZeroVector(n1) /\ t' = ZeroVector(n1)
           /\ its' = 0
           /\ err' = RMul(RMul(epsilon_, epsilon_), dot(b, b))
           /\ r' = r1 /\ d' = d1 /\ h' = h1 /\ rT' = rT1
           /\ multCalls' = multCalls + 1
           /\ IF ~NDEBUG /\ IsZero(dot(rT1, rT1))
              THEN /\ pc' = "aborted"
                   /\ UNCHANGED <<rTh, rTr>>
              ELSE /\ pc' = "L143"
                   /\ rTh' = dot(rT1, h1)
                   /\ rTr' = dot(r1, r1)
    /\ UNCHANGED <<config, args, x, rTAd, alpha, beta, omega, st, tt,
                   success, cerr, x_written, bodyEntries, broke>>

\* line 143
LoopTest ==
    /\ pc = "L143"
    /\ IF LoopCond(rTr, err, its, max_iter)
       THEN /\ pc' = "L145"
            /\ bodyEntries' = bodyEntries + 1
       ELSE /\ pc' = "L180"
            /\ UNCHANGED bodyEntries
    /\ UNCHANGED <<config, args, x, n, max_iter, vectors, scalars, its,
                   success, cerr, x_written, multCalls, broke>>

\* lines 145-147: Ad = A*d, rTAd = (rT|Ad), assert on rTAd
MultAd ==
    /\ pc = "L145"
    /\ LET Ad1 == mult(A, d)
           rTAd1 == dot(rT, Ad1)
       IN  /\ Ad' = Ad1
           /\ rTAd' = rTAd1
           /\ multCalls' = multCalls + 1
           /\ pc' = IF ~NDEBUG /\ IsZero(rTAd1) THEN "aborted" ELSE "L148"
    /\ UNCHANGED <<config, args, x, n, max_iter, rT, d, h, u, t, r,
                   rTh, rTr, alpha, beta, omega, st, tt, err, its,
                   success, cerr, x_written, bodyEntries, broke>>

\* lines 148-156: alpha = rTh/rTAd, r, s, t = A*s, u, st, tt
AlphaStep ==
    /\ pc = "L148"
    /\ LET alpha1 == RDiv(rTh, rTAd)
           s1 == s_update(alpha1, Ad, h)
           t1 == mult(A, s1)
       IN  /\ alpha' = alpha1
           /\ r' = r_update(alpha1, Ad, r)
           /\ h' = s1
           /\ t' = t1
           /\ u' = scal(alpha1, axpy(One, t1, u))
           /\ st' = dot(s1, t1)
           /\ tt' = dot(t1, t1)
           /\ multCalls' = multCalls + 1
           /\ pc' = "L157"
    /\ UNCHANGED <<config, args, x, n, max_iter, rT, d, Ad,
                   rTh, rTAd, rTr, beta, omega, err, its,
                   success, cerr, x_written, bodyEntries, broke>>

\* lines 161-166, once omega has the value om
Lines161to166(om) ==
    /\ omega' = om
    /\ x' = x_update(alpha, d, om, h, x)
    /\ x_written' = x'
    /\ r' = r_update(om, t, r)
    /\ rTr' = dot(r', r')
    /\ h' = h_update(om, t, h)
    /\ pc' = "L167"

\* lines 157-158: the test before the division st/tt
OmegaTest ==
    /\ pc = "L157"
    /\ IF IsZero(st) \/ IsZero(tt)
       THEN Lines161to166(Zero)
       ELSE /\ pc' = "L160"
            /\ UNCHANGED <<omega, x, x_written, r, rTr, h>>
    /\ UNCHANGED <<config, args, n, max_iter, rT, d, u, Ad, t,
                   rTh, rTAd, alpha, beta, st, tt, err, its,
                   success, cerr, multCalls, bodyEntries, broke>>

\* line 160: omega = st/tt
OmegaDiv ==
    /\ pc = "L160"
    /\ Lines161to166(RDiv(st, tt))
    /\ UNCHANGED <<config, args, n, max_iter, rT, d, u, Ad, t,
                   rTh, rTAd, alpha, beta, st, tt, err, its,
                   success, cerr, multCalls, bodyEntries, broke>>

\* lines 167-170: the two breaks
Guards ==
    /\ pc = "L167"
    /\ IF IsZero(omega)
       THEN pc' = "L180" /\ broke' = "omega"
       ELSE IF IsZero(rTh)
       THEN pc' = "L180" /\ broke' = "rTh"
       ELSE pc' = "L171" /\ UNCHANGED broke
    /\ UNCHANGED <<config, args, x, n, max_iter, vectors, scalars, its,
                   success, cerr, x_written, multCalls, bodyEntries>>

\* lines 171-177: beta, rTh, d, its++
BetaStep ==
    /\ pc = "L171"
    /\ LET beta0 == RDiv(RDiv(alpha, omega), rTh)
           rTh1 == dot(rT, h)
           beta1 == RMul(beta0, rTh1)
       IN  /\ rTh' = rTh1
           /\ beta' = beta1
           /\ d' = axpy(RMul(RNeg(beta1), omega), Ad,
                        axpy(One, h, scal(beta1, d)))
           /\ its' = its + 1
           /\ pc' = "L143"
    /\ UNCHANGED <<config, args, x, n, max_iter, rT, h, u, Ad, t, r,
                   rTAd, rTr, alpha, omega, st, tt, err,
                   success, cerr, history>>

\* lines 180-182: success, the diagnostic line, return
Exit ==
    /\ pc = "L180"
    /\ success' = Success(rTr, err)
    /\ cerr' = Append(cerr, [success |-> Success(rTr, err), its |-> its,
                             max_iter |-> max_iter, rTr |-> rTr, err |-> err,
                             omega |-> omega, rTh |-> rTh])
    /\ pc' = "returned"
    /\ UNCHANGED <<config, args, x, n, max_iter, vectors, scalars, its,
                   history>>

\* any caller: dimensions and coefficients within the bounds
CallSolve ==
    /\ pc = "idle"
    /\ \E dA \in Dims, dB \in Dims, dX \in Dims :
         \E M \in Matrices(dA), rhs \in VectorsOver(dB, 0..MaxRhs),
            guess \in VectorsOver(dX, GuessEntries) : Call(M, rhs, guess)

Configure ==
    /\ pc = "idle"
    /\ \/ \E eps \in EpsilonValues : set_epsilon(eps)
       \/ \E k \in 0..MaxIterCfg : set_max_iter(k)

Next ==
    \/ Configure
    \/ CallSolve
    \/ Validate
    \/ Setup
    \/ LoopTest
    \/ MultAd
    \/ AlphaStep
    \/ OmegaTest
    \/ OmegaDiv
    \/ Guards
    \/ BetaStep
    \/ Exit

Spec == Init /\ [][Next]_vars

(***************************************************************************)
(* Properties.                                                              *)
(***************************************************************************)
\* A*x - b computed from the arguments alone
Residual(M, xv, rhs) == axpy(Scalar(-1), rhs, mult(M, xv))

Called == pc # "idle"

ArgsValid == Called /\ DimensionsValid(A, b, x_entry)

\* C1: a call whose dimensions differ, or whose dimension is not positive,
\* goes from the tests straight to the return: it returns false, x is as on
\* entry and mult has not been called.
C1_InvalidDimensionsRejected ==
    (Called /\ (dimension(A) # dimension(b) \/ dimension(A) # dimension(x_entry)
                \/ dimension(A) <= 0))
    => /\ pc \in {"L106", "returned"}
       /\ x = x_entry
       /\ multCalls = 0
       /\ (pc = "returned" => success = FALSE)

C1_Witness ==
    /\ pc = "returned"
    /\ dimension(A) = 2 /\ dimension(b) = 2 /\ dimension(x_entry) = 1
    /\ success = FALSE /\ multCalls = 0

\* C2: when solve has returned true, the residual recomputed from A, b and
\* the final x satisfies |A*x - b|^2 <= eps^2 * |b|^2; and at the loop test,
\* after the updates of an iteration and at the exit the tracked r is A*x - b.
C2_ResidualContract ==
    /\ (pc = "returned" /\ success = TRUE)
       => RLeq(dot(Residual(A, x, b), Residual(A, x, b)),
               RMul(RMul(epsilon_, epsilon_), dot(b, b)))
    /\ (pc \in {"L143", "L167", "L171", "L180"}) => r = Residual(A, x, b)

C2_Witness ==
    /\ pc = "returned" /\ success = TRUE
    /\ bodyEntries >= 1 /\ x # x_entry
    /\ epsilon_ = <<1, 10000>>

\* C3: with valid dimensions and A*x0 - b = 0 the call returns true without
\* entering the loop body: its = 0 and x is unchanged.
C3_ZeroResidualReturnsAtOnce ==
    (ArgsValid /\ Residual(A, x_entry, b) = ZeroVector(dimension(A)))
    => /\ pc \in {"L106", "L113", "L143", "L180", "returned"}
       /\ its = 0 /\ bodyEntries = 0 /\ x = x_entry
       /\ (pc = "returned" => success = TRUE)

\* C4: no call ends otherwise than by returning a boolean.
C4_NoOutOfBandEnd == pc # "aborted"

\* C5: the cap is 10*n when max_iter_ is 0 and max_iter_ otherwise; the body
\* is entered at most cap times, its never exceeds the cap, and a loop left
\* by its condition with rTr > err has its equal to the cap.
C5_CapSemantics ==
    n > 0
    => /\ max_iter = (IF max_iter_ = 0 THEN 10 * n ELSE max_iter_)
       /\ bodyEntries <= max_iter
       /\ its <= max_iter
       /\ (pc \in {"L180", "returned"} /\ broke = "none" /\ RLess(err, rTr))
          => its = max_iter

C5_Witness ==
    /\ pc = "returned" /\ n = 2 /\ broke = "none"
    /\ max_iter_ = 1 /\ its = 1 /\ bodyEntries = 1
    /\ RLess(err, rTr)

\* C6 as claimed: a call whose loop was left by a divide-by-zero guard
\* returns false.
C6_GuardReturnsFalse ==
    (pc = "returned" /\ broke # "none") => success = FALSE

\* C6 as amended: when omega or rTh is near zero after the updates the loop
\* is left at once (the iteration is not counted and the divisions of line
\* 171 are not reached), and the call returns true exactly when rTr <= err.
C6_GuardStopsLoop ==
    /\ pc = "L171" => (~IsZero(omega) /\ ~IsZero(rTh))
    /\ broke # "none"
       => /\ pc \in {"L180", "returned"}
          /\ IsZero(omega) \/ IsZero(rTh)
          /\ bodyEntries = its + 1
    /\ (pc = "returned" /\ broke # "none") => success = RLeq(rTr, err)

C6_Witness ==
    /\ pc = "returned" /\ broke = "omega"
    /\ IsZero(omega) /\ IsZero(tt)
    /\ success = TRUE /\ x # x_entry

\* C7: a call that has returned has written exactly one diagnostic line,
\* and every field of it had been assigned.
C7_OneDiagnosticLine ==
    pc = "returned"
    => /\ Len(cerr) = 1
       /\ cerr[1].omega # Uninit /\ cerr[1].rTh # Uninit
       /\ cerr[1].rTr # Uninit /\ cerr[1].err # Uninit

\* C8: a call with valid dimensions that returned false either ran its
\* loop up to the cap with rTr > err, or left it by a guard with rTr > err;
\* x is the value stored by the last x update.
C8_FalseMeansCapOrGuard ==
    (pc = "returned" /\ ArgsValid /\ success = FALSE)
    => /\ RLess(err, rTr)
       /\ (broke = "none" => its = max_iter)
       /\ x = x_written

\* C9: each division is reached only with a denominator that is not near
\* zero: rTAd at line 148, tt at line 160, omega and rTh at line 171.
C9_DivisionsGuarded ==
    /\ pc = "L148" => ~IsZero(rTAd)
    /\ pc = "L160" => ~IsZero(tt)
    /\ pc = "L171" => (~IsZero(omega) /\ ~IsZero(rTh))

\* C10: at the loop test and at the loop exit r and h are equal and rT is
\* still the initial residue; at the loop test rTh = (rT|r) and rTr = (h|h).
C10_ResidueCopiesAgree ==
    /\ pc \in {"L143", "L180"}
       => (r = h /\ rT = Residual(A, x_entry, b))
    /\ pc = "L143" => (rTh = dot(rT, r) /\ rTr = dot(h, h))

C10_Witness ==
    /\ pc = "L143" /\ its = 1
    /\ r = h /\ r # rT /\ rTh = dot(rT, r)
=============================================================================
